---- MODULE Spec2Model ----
(***************************************************************************)
(* partition.py: enumeration of the partitions of a weighted graph into    *)
(* connected districts within weight limits.                               *)
(*                                                                         *)
(* The recursion of all_partitions and accrete is modelled with an         *)
(* explicit call stack; one action per loop iteration, call and return.    *)
(* The iteration order of the Python set nbrs is unspecified, so each      *)
(* iteration of "for nbr in nbrs" picks any node not yet visited.          *)
(* Weights are naturals, limits are rationals <<numerator, denominator>>   *)
(* with a positive denominator (calc_limits divides).                      *)
(***************************************************************************)
EXTENDS Integers, Sequences, FiniteSets

VARIABLES
    graph,      \* the graph object given to the program: [nodes, weight, edges]
    before,     \* snapshot of graph taken when all_partitions was called
    num_parts,  \* argument of calc_limits (None when limits are given directly)
    max_ratio,  \* argument of calc_limits, a rational (None likewise)
    limits,     \* [min, max], rationals (None until calc_limits returned)
    stack,      \* call stack of all_partitions / accrete frames, top is last
    result,     \* the list returned by the outermost all_partitions
    first,      \* <<the set of partitions the previous run returned>>, or <<>>
    pc          \* position of the main program

vars == <<graph, before, num_parts, max_ratio, limits, stack, result, first, pc>>

None == "None"

\* ---------------------------------------------------------------- bounds

MaxNodes == 4
MaxWeight == 1
MaxLimit == 2
MaxParts == 2
MaxRatio == 2

\* ------------------------------------------------------------- rationals

\* n/d with d made positive
Rat(n, d) == IF d < 0 THEN <<0 - n, 0 - d>> ELSE <<n, d>>

\* integer w > rational r, w >= r
Gt(w, r) == w * r[2] > r[1]
Geq(w, r) == w * r[2] >= r[1]

\* rational a <= rational b
LeqRat(a, b) == a[1] * b[2] <= b[1] * a[2]

\* ----------------------------------------------------------------- graph

\* the ring 1 - 2 - ... - n - 1; the input graphs are its subgraphs
RingEdges(n) ==
    {{i, i + 1} : i \in 1..(n - 1)} \cup (IF n >= 3 THEN {{1, n}} ELSE {})

Graphs(lo) ==
    UNION {
        {[nodes |-> 1..n, weight |-> w, edges |-> e] :
            w \in [1..n -> 0..MaxWeight], e \in SUBSET RingEdges(n)}
        : n \in lo..MaxNodes}

\* graph[n] looked up in the input graph instead of the remainder
AdjInput(G, n) == {m \in graph.nodes : {n, m} \in graph.edges}

\* graph[n] in the graph induced on the node set G (a remainder keeps the
\* edges among its own nodes)
Adj(G, n) == {m \in G : {n, m} \in graph.edges}

RECURSIVE Weight(_)
Weight(S) ==
    IF S = {} THEN 0
    ELSE LET n == CHOOSE x \in S : TRUE
         IN graph.weight[n] + Weight(S \ {n})

\* lines 51-55: first node, in node order, of the highest weight
Heaviest(G) ==
    CHOOSE n \in G :
        /\ \A m \in G : graph.weight[m] <= graph.weight[n]
        /\ \A m \in G : graph.weight[m] = graph.weight[n] => n <= m

\* the frontier without the adjacency test of line 102
FrontierAnyNode(G, subgraph, ignore) == G \ ignore

\* lines 100-102
Frontier(G, subgraph, ignore) ==
    UNION {Adj(G, n) \ ignore : n \in subgraph}

\* line 107: the weight compared with the limits for nbr
Extended(subgraph_weight, nbr) == subgraph_weight + graph.weight[nbr]

\* line 117 without "| {nbr}"
ChildIgnoreSame(ignore, nbr) == ignore

\* line 117: the ignore set handed to the nested call
ChildIgnore(ignore, nbr) == ignore \cup {nbr}

\* lines 69-70
Remainder(G, subgraph) == G \ subgraph

\* --------------------------------------------------------------- frames

AccreteFrame(G, subgraph, w, ignore) ==
    LET nbrs == Frontier(G, subgraph, ignore)
    IN [fn |-> "accrete", graph |-> G, subgraph |-> subgraph,
        subgraph_weight |-> w, ignore |-> ignore, nbrs |-> nbrs,
        todo |-> nbrs, nbr |-> 0, subgraphs |-> <<>>]

PartitionsFrame(G) ==
    [fn |-> "all_partitions", graph |-> G, at |-> "start",
     subgraphs |-> <<>>, i |-> 1, partitions |-> <<>>]

Top == stack[Len(stack)]
Below == SubSeq(stack, 1, Len(stack) - 1)
Running == pc = "all_partitions" /\ stack # <<>>

\* ------------------------------------------------------------- calc_limits

\* lines 32 and 34 divide: by num_parts, by max_ratio = <<p, q>>
Raises(parts, ratio) == parts = 0 \/ ratio[1] = 0

\* lines 28-35, when no division raises
calc_limits(g, parts, ratio) ==
    LET total_weight == Weight(g.nodes)
    IN [min |-> Rat(total_weight * ratio[2], parts * ratio[1]),
        max |-> Rat(total_weight * ratio[1], parts * ratio[2])]

\* ----------------------------------------------------------------- Init


Init ==
    /\ graph \in Graphs(0)
    /\ before = graph
    /\ num_parts = None
    /\ max_ratio = None
    /\ limits \in {[min |-> <<lo, 1>>, max |-> <<hi, 1>>] :
                     lo \in 0..MaxLimit, hi \in 0..MaxLimit}
    /\ stack = <<PartitionsFrame(graph.nodes)>>
    /\ result = <<>>
    /\ first = <<>>
    /\ pc = "all_partitions"

InitMain ==
    /\ graph \in Graphs(0)
    /\ before = graph
    /\ num_parts \in (0 - 1)..MaxParts
    /\ max_ratio \in {<<p, q>> : p \in 0..MaxRatio, q \in 1..MaxRatio}
    /\ limits = [min |-> None, max |-> None]
    /\ stack = <<>>
    /\ result = <<>>
    /\ first = <<>>
    /\ pc = "calc_limits"

\* -------------------------------------------------------------- actions

\* line 131
CalcLimits ==
    /\ pc = "calc_limits"
    /\ IF Raises(num_parts, max_ratio)
       THEN /\ pc' = "ZeroDivisionError"
            /\ UNCHANGED <<limits, stack>>
       ELSE /\ limits' = calc_limits(graph, num_parts, max_ratio)
            /\ stack' = <<PartitionsFrame(graph.nodes)>>
            /\ pc' = "all_partitions"
    /\ UNCHANGED <<graph, before, num_parts, max_ratio, result, first>>

\* line 53 on a graph without nodes: max([]) raises
PartitionsEmptyGraph ==
    /\ Running
    /\ Top.fn = "all_partitions" /\ Top.at = "start"
    /\ Top.graph = {}
    /\ pc' = "ValueError"
    /\ stack' = <<>>
    /\ UNCHANGED <<graph, before, num_parts, max_ratio, limits, result, first>>

\* lines 48-62 and, in the callee, 95-102
PartitionsSeed ==
    /\ Running
    /\ Top.fn = "all_partitions" /\ Top.at = "start"
    /\ Top.graph # {}
    /\ LET heaviest == Heaviest(Top.graph)
       IN stack' = Append(Append(Below, [Top EXCEPT !.at = "accrete"]),
                          AccreteFrame(Top.graph, {heaviest},
                                       graph.weight[heaviest], {heaviest}))
    /\ UNCHANGED <<graph, before, num_parts, max_ratio, limits, result, first, pc>>

\* lines 106-109: nbr is too heavy
AccreteIgnore ==
    /\ Running
    /\ Top.fn = "accrete"
    /\ \E nbr \in Top.todo :
        LET w == Extended(Top.subgraph_weight, nbr)
        IN /\ Gt(w, limits.max)
           /\ stack' = Append(Below,
                  [Top EXCEPT !.subgraph_weight = w,
                              !.ignore = @ \cup {nbr},
                              !.todo = @ \ {nbr},
                              !.nbr = nbr])
    /\ UNCHANGED <<graph, before, num_parts, max_ratio, limits, result, first, pc>>

\* lines 106-118 and, in the callee, 95-102: nbr joins the candidate
AccreteExtend ==
    /\ Running
    /\ Top.fn = "accrete"
    /\ \E nbr \in Top.todo :
        LET w == Extended(Top.subgraph_weight, nbr)
            new_subgraph == Top.subgraph \cup {nbr}
        IN /\ ~Gt(w, limits.max)
           /\ stack' = Append(Append(Below,
                  [Top EXCEPT !.subgraph_weight = w,
                              !.todo = @ \ {nbr},
                              !.nbr = nbr,
                              !.subgraphs = IF Geq(w, limits.min)
                                            THEN Append(@, new_subgraph)
                                            ELSE @]),
                  AccreteFrame(Top.graph, new_subgraph, w,
                               ChildIgnore(Top.ignore, nbr)))
    /\ UNCHANGED <<graph, before, num_parts, max_ratio, limits, result, first, pc>>

\* line 119, and the caller's line 114 or 58
AccreteReturn ==
    /\ Running
    /\ Top.fn = "accrete"
    /\ Top.todo = {}
    /\ LET caller == stack[Len(stack) - 1]
           rest == SubSeq(stack, 1, Len(stack) - 2)
       IN stack' = Append(rest,
              IF caller.fn = "accrete"
              THEN [caller EXCEPT !.subgraphs = @ \o Top.subgraphs]
              ELSE [caller EXCEPT !.subgraphs = Top.subgraphs,
                                  !.at = "loop", !.i = 1])
    /\ UNCHANGED <<graph, before, num_parts, max_ratio, limits, result, first, pc>>

\* lines 64-72: the subgraph uses up the graph
PartitionsOnePart ==
    /\ Running
    /\ Top.fn = "all_partitions" /\ Top.at = "loop"
    /\ Top.i <= Len(Top.subgraphs)
    /\ LET subgraph == Top.subgraphs[Top.i]
       IN /\ Remainder(Top.graph, subgraph) = {}
          /\ stack' = Append(Below,
                 [Top EXCEPT !.partitions = Append(@, <<subgraph>>),
                             !.i = @ + 1])
    /\ UNCHANGED <<graph, before, num_parts, max_ratio, limits, result, first, pc>>

\* lines 64-74: recursive call on the remainder
PartitionsRecurse ==
    /\ Running
    /\ Top.fn = "all_partitions" /\ Top.at = "loop"
    /\ Top.i <= Len(Top.subgraphs)
    /\ LET remainder == Remainder(Top.graph, Top.subgraphs[Top.i])
       IN /\ remainder # {}
          /\ stack' = Append(stack, PartitionsFrame(remainder))
    /\ UNCHANGED <<graph, before, num_parts, max_ratio, limits, result, first, pc>>

\* lines 76-77
Extend(subpartitions, subgraph) ==
    [k \in 1..Len(subpartitions) |-> Append(subpartitions[k], subgraph)]

\* line 79, and the caller's lines 74-77 (or the main program's line 132)
PartitionsReturn ==
    /\ Running
    /\ Top.fn = "all_partitions" /\ Top.at = "loop"
    /\ Top.i > Len(Top.subgraphs)
    /\ IF Len(stack) = 1
       THEN /\ result' = Top.partitions
            /\ stack' = <<>>
            /\ pc' = "done"
       ELSE LET caller == stack[Len(stack) - 1]
                rest == SubSeq(stack, 1, Len(stack) - 2)
            IN /\ stack' = Append(rest,
                      [caller EXCEPT
                          !.partitions = @ \o Extend(Top.partitions,
                                                     caller.subgraphs[caller.i]),
                          !.i = @ + 1])
               /\ UNCHANGED <<result, pc>>
    /\ UNCHANGED <<graph, before, num_parts, max_ratio, limits, first>>

\* a partition as a set of node sets, a list of partitions as a set
AsSet(partitions) ==
    {{partitions[k][j] : j \in 1..Len(partitions[k])} : k \in 1..Len(partitions)}

\* the same call once more: same graph object, same limits
SecondCall ==
    /\ pc = "done"
    /\ first = <<>>
    /\ first' = <<AsSet(result)>>
    /\ before' = graph
    /\ stack' = <<PartitionsFrame(graph.nodes)>>
    /\ result' = <<>>
    /\ pc' = "all_partitions"
    /\ UNCHANGED <<graph, num_parts, max_ratio, limits>>

Next ==
    \/ PartitionsEmptyGraph
    \/ PartitionsSeed
    \/ AccreteIgnore
    \/ AccreteExtend
    \/ AccreteReturn
    \/ PartitionsOnePart
    \/ PartitionsRecurse
    \/ PartitionsReturn

NextMain == CalcLimits \/ Next

NextTwice == Next \/ SecondCall

Spec == Init /\ [][Next]_vars

FairSpec == Init /\ [][Next]_vars /\ WF_vars(Next)

SpecMain == InitMain /\ [][NextMain]_vars

SpecTwice == Init /\ [][NextTwice]_vars

\* ------------------------------------------------ vocabulary of the claims

Frames(fn) == {k \in 1..Len(stack) : stack[k].fn = fn}

Elems(seq) == {seq[k] : k \in 1..Len(seq)}

WithinLimits(w) == Geq(w, limits.min) /\ ~Gt(w, limits.max)

\* the nodes of S reachable from the nodes of R by edges inside S
RECURSIVE Reach(_, _)
Reach(R, S) ==
    LET more == {m \in S \ R : \E n \in R : {n, m} \in graph.edges}
    IN IF more = {} THEN R ELSE Reach(R \cup more, S)

\* S induces a connected subgraph of the input graph
Connected(S) ==
    /\ S # {}
    /\ Reach({CHOOSE n \in S : TRUE}, S) = S

\* the node sets of the list are pairwise disjoint and cover exactly G
Divides(partition, G) ==
    /\ \A a, b \in 1..Len(partition) :
          a # b => partition[a] \cap partition[b] = {}
    /\ UNION Elems(partition) = G

\* every division of the input graph into connected districts within limits
Districts ==
    {S \in SUBSET graph.nodes : Connected(S) /\ WithinLimits(Weight(S))}

ValidDivisions ==
    {P \in SUBSET Districts :
        /\ UNION P = graph.nodes
        /\ \A A, B \in P : A # B => A \cap B = {}}

NoRepeat(seq) == \A a, b \in 1..Len(seq) : a # b => seq[a] # seq[b]

\* ---------------------------------------------------------------- claims

\* C1: every subgraph of every returned partition has a true weight (the
\* sum of the weights of its nodes) within [min_weight, max_weight].
C1_WeightWithinLimits ==
    pc = "done" =>
        \A k \in 1..Len(result) : \A j \in 1..Len(result[k]) :
            WithinLimits(Weight(result[k][j]))

\* C2: all_partitions is exhaustive: every division of a non-empty graph
\* into disjoint connected node sets within the limits is in the result.
C2_Exhaustive ==
    (pc = "done" /\ graph.nodes # {}) => ValidDivisions \subseteq AsSet(result)

\* C3: in every partition all_partitions returns (the outermost call and
\* the nested calls on remainders) the node sets are pairwise disjoint and
\* their union is exactly the node set of the graph the call was given.
\* A frame changes only while it is the top of the stack, so the running
\* call's list and the final result cover every list ever returned.
C3_DisjointCover ==
    /\ (Running /\ Top.fn = "all_partitions") =>
          \A q \in Elems(Top.partitions) : Divides(q, Top.graph)
    /\ pc = "done" => \A q \in Elems(result) : Divides(q, graph.nodes)

C3_Witness ==
    /\ pc = "done"
    /\ \E q \in Elems(result) : Len(q) >= 2

\* C4: every frontier node of accrete is a node of the current graph
\* adjacent to a node of the candidate, and every candidate and every
\* returned subgraph induces a connected subgraph of the input graph.
\* (Checked on the running call, which is where lists change, and on the
\* final result.)
C4_Connected ==
    /\ (Running /\ Top.fn = "accrete") =>
          /\ Connected(Top.subgraph)
          /\ \A n \in Top.nbrs :
                /\ n \in Top.graph
                /\ \E m \in Top.subgraph : {n, m} \in graph.edges
    /\ Running => \A S \in Elems(Top.subgraphs) : Connected(S)
    /\ pc = "done" =>
          \A q \in Elems(result) : \A S \in Elems(q) : Connected(S)

C4_Witness ==
    /\ pc = "done"
    /\ \E q \in Elems(result) : \E S \in Elems(q) : Cardinality(S) >= 3

\* C5: a graph of one node, limits from calc_limits with num_parts = 1
\* and max_ratio >= 1: the result is exactly one partition, of one
\* subgraph holding that node.
C5_SingleNode ==
    (/\ pc = "done"
     /\ Cardinality(graph.nodes) = 1
     /\ num_parts = 1
     /\ max_ratio[1] >= max_ratio[2])
        => result = <<<<graph.nodes>>>>

\* C6: a second run on the same graph and limits returns the same set of
\* partitions as the first, whatever order each run visits frontier nodes
\* in, and the graph is after the call what it was before.
C6_SameResult ==
    (pc = "done" /\ first # <<>>) =>
        /\ AsSet(result) = first[1]
        /\ graph = before

\* C7: calc_limits ends in InvalidParameterError, and returns no limits,
\* when num_parts <= 0, max_ratio < 1 or the graph has no nodes; otherwise
\* it returns limits with min_weight <= total_weight/num_parts <= max_weight.
C7_CalcLimits ==
    pc # "calc_limits" =>
        IF num_parts <= 0 \/ max_ratio[1] < max_ratio[2] \/ graph.nodes = {}
        THEN pc = "InvalidParameterError" /\ limits.min = None
        ELSE /\ limits.min # None
             /\ LeqRat(limits.min, <<Weight(graph.nodes), num_parts>>)
             /\ LeqRat(<<Weight(graph.nodes), num_parts>>, limits.max)

\* C8: for the frontier node n an accrete call visited last, the weight
\* compared with the limits is the weight of the candidate the call was
\* given plus the weight of n; n is ignored iff that sum exceeds
\* max_weight, and the candidate with n is accepted iff it is within limits.
C8_ComparedWeight ==
    \A k \in Frames("accrete") :
        LET f == stack[k]
            sum == Weight(f.subgraph) + graph.weight[f.nbr]
        IN f.nbr # 0 =>
            /\ f.subgraph_weight = sum
            /\ f.nbr \in f.ignore <=> Gt(sum, limits.max)
            /\ (f.subgraph \cup {f.nbr}) \in Elems(f.subgraphs)
                  <=> WithinLimits(sum)

\* C9: accrete returns no node set twice, and all_partitions lists no
\* partition (as a collection of node sets) twice.
C9_NoDuplicates ==
    /\ \A k \in 1..Len(stack) : NoRepeat(stack[k].subgraphs)
    /\ pc = "done" =>
          \A a, b \in 1..Len(result) :
              a # b => Elems(result[a]) # Elems(result[b])

\* For every caller/callee pair of the stack: a nested accrete call was
\* given a strict superset of what the caller's ignore set was when the
\* caller computed its frontier (ignore.add only adds frontier nodes, so
\* that set is ignore \ nbrs); a nested all_partitions call was given
\* strictly fewer nodes than its caller has.
StrictlyNested ==
    \A k \in 1..(Len(stack) - 1) :
        LET caller == stack[k]
            callee == stack[k + 1]
        IN /\ (caller.fn = "accrete" /\ callee.fn = "accrete") =>
                /\ (caller.ignore \ caller.nbrs)
                       \subseteq (callee.ignore \ callee.nbrs)
                /\ (caller.ignore \ caller.nbrs)
                       # (callee.ignore \ callee.nbrs)
           /\ (caller.fn = "all_partitions" /\ callee.fn = "all_partitions") =>
                /\ callee.graph \subseteq caller.graph
                /\ callee.graph # caller.graph

\* C10: along every chain of nested calls the ignore sets strictly grow
\* and the remainders strictly shrink, and on a non-empty graph
\* all_partitions eventually returns (the program keeps running: FairSpec).
C10_Terminates ==
    /\ []StrictlyNested
    /\ (graph.nodes # {}) => <>(pc = "done")

C10_Witness ==
    /\ Len(stack) >= 4
    /\ stack[2].fn = "all_partitions"
    /\ stack[Len(stack) - 1].fn = "accrete"
    /\ Top.fn = "accrete"

====
